---- MODULE Spec2Model ----
(***************************************************************************)
(* TalentCopilot backend: the human-in-the-loop confirmation protocol      *)
(* (POST /chat, POST /confirm, POST /upload/cv, GET /jobs/{id}), the       *)
(* background GitHub ingestion runner and the session-summary compaction.  *)
(*                                                                         *)
(* Every request runs in its own database transaction (get_db): its writes *)
(* are flushed inside the transaction and become visible to other          *)
(* transactions only at commit; reads see committed rows (PostgreSQL       *)
(* READ COMMITTED) plus the transaction's own writes.  A handler is a      *)
(* sequence of steps cut at the database statements whose result depends   *)
(* on other transactions.                                                  *)
(***************************************************************************)
EXTENDS Integers, Sequences, FiniteSets, TLC

\* ---------------------------------------------------------------- bounds
MaxTurns == 1       \* chat turns that are not a bare yes/no
MaxUploads == 1     \* CV uploads
MaxResolves == 2    \* bare yes/no chat turns and POST /confirm requests
MaxInflight == 2    \* requests in flight at the same time

\* memory_window_size (a setting; the model runs with a small window)
W == 1

\* ---------------------------------------------------------------- values
None == <<>>
Some(x) == <<x>>

\* request scopes (tenant_id, user_id, session_id of a request body / headers)
Tenants == { "t1", "t2" }
Users == { "u1", "u2" }
Sessions == { "s1", "s2" }

Scopes == [tenant : Tenants, user : Users, session : Sessions]

\* the scopes that chat and upload
Callers ==
  { [tenant |-> "t1", user |-> "u1", session |-> "s1"] }

\* the scopes that query job status: the owner, another tenant, another user
Pollers ==
  { c \in Scopes : c.session = "s1" /\ (c.tenant = "t1" \/ c.user = "u1") }

\* repository URLs as token sequences
Urls == { <<"acme/widget">>, <<"acme/widget", "/">> }

\* chat messages a user sends
UserMessages == { "yes", "y", "no", "n", "hi" }

\* parsed CV payloads: a dict as its set of <<key, value>> items; parse_cv_file
\* returns the five keys
ParsedCVs ==
  { { <<"contact_info", "c1">>, <<"skills", "k1">>, <<"experience", "e1">>,
      <<"projects", "p1">>, <<"education", "d1">> } }

\* the empty containers {} and []
EmptyDict == "{}"
EmptyList == "[]"

\* message texts: a template k, a URL argument and a job-id argument
Content(k, url, job) == [k |-> k, url |-> url, job |-> job]
Text(k) == Content(k, <<>>, 0)
CrawlPrompt(url) == Content("Would you like me to crawl this repository: ", url, 0)
SavePrompt == Text("Do you want me to save this candidate profile to the workspace? (yes/no)")
\* the reply without the id of the Job
IngestStarted_no_id(job) == Content("Ingestion job started. Job ID: ", <<>>, 0)
IngestStarted(job) == Content("Ingestion job started. Job ID: ", <<>>, job)
CandidateSaved == Text("Candidate profile saved to workspace.")
ConfirmationRecorded == Text("Confirmation recorded.")
Understood == Text("Understood, I did not perform that action.")
LLMReply == Text("llm reply")

\* confirmation payloads: one record shape for both tools
GithubPayload(url) == [repo_url |-> url, candidate |-> {}]
CandidatePayload(cv) == [repo_url |-> <<>>, candidate |-> cv]

\* ---------------------------------------------------------------- state
VARIABLES
  sessions,      \* committed Session rows: session id -> [tenant, user]
  messages,      \* committed Message rows, in insertion order
  confs,         \* committed Confirmation rows: id -> row
  jobs,          \* committed Job rows: id -> row
  candidates,    \* committed Candidate rows, in insertion order
  repositories,  \* committed Repository rows (a set)
  summaries,     \* committed SessionSummary rows: <<tenant, session>> -> text
  reqs,          \* requests in flight: request id -> handler position and uncommitted writes
  background,    \* request id -> the background tasks of its response still to run, in order
  exit_last,     \* the server runs the exit code of get_db after (TRUE) or before (FALSE)
                 \* the background tasks of the response
  nreq,          \* number of requests received so far
  used,          \* number of requests received so far, per kind
  nextConf,      \* number of Confirmation ids handed out
  nextJob,       \* number of Job ids handed out
  lastResp,      \* the response sent by the step just taken, NoResp when it sent none
  origin         \* history: the request that created each Job (by id) and Candidate (by position)

vars == << sessions, messages, confs, jobs, candidates, repositories, summaries,
           reqs, background, exit_last, nreq, used, nextConf, nextJob, lastResp, origin >>

db == << sessions, messages, confs, jobs, candidates, repositories, summaries >>

\* ---------------------------------------------------------------- helpers
Remove(f, k) == [x \in DOMAIN f \ {k} |-> f[x]]

\* a test that takes every message for a yes/no token
is_yes_no_any(msg) == TRUE

\* chat.py _is_yes_no / _approved_from_message (strip and lower-case are
\* applied to the messages of UserMessages, which are already trimmed lower case)
is_yes_no(msg) == msg \in {"yes", "y", "no", "n"}
approved_from_message(msg) == msg \in {"yes", "y"}

\* a lookup that ignores the id and returns the newest pending row of the scope
get_pending_newest(table, c, id) ==
  LET P == { i \in DOMAIN table : /\ table[i].tenant = c.tenant
                                  /\ table[i].user = c.user
                                  /\ table[i].session = c.session
                                  /\ table[i].status = "pending" }
  IN IF P = {} THEN 0 ELSE CHOOSE i \in P : \A k \in P : k <= i

\* a lookup by id that does not compare the user
get_pending_any_user(table, c, id) ==
  IF /\ id \in DOMAIN table
     /\ table[id].tenant = c.tenant
     /\ table[id].session = c.session
     /\ table[id].status = "pending"
  THEN id ELSE 0

\* ConfirmationRepository.get_pending: id, tenant, user, session and status filter
get_pending(table, c, id) ==
  IF /\ id \in DOMAIN table
     /\ table[id].tenant = c.tenant
     /\ table[id].user = c.user
     /\ table[id].session = c.session
     /\ table[id].status = "pending"
  THEN id ELSE 0

\* a lookup that returns the oldest pending confirmation of the scope
get_pending_for_session_oldest(table, c) ==
  LET ids == { id \in DOMAIN table : /\ table[id].tenant = c.tenant
                                     /\ table[id].user = c.user
                                     /\ table[id].session = c.session
                                     /\ table[id].status = "pending" }
  IN IF ids = {} THEN 0
     ELSE CHOOSE id \in ids : \A k \in ids : table[id].created_at <= table[k].created_at

\* a lookup that never finds a pending confirmation
get_pending_for_session_none(table, c) == 0

\* ConfirmationRepository.get_pending_for_session: newest pending of the scope
get_pending_for_session(table, c) ==
  LET P == { i \in DOMAIN table : /\ table[i].tenant = c.tenant
                                  /\ table[i].user = c.user
                                  /\ table[i].session = c.session
                                  /\ table[i].status = "pending" }
  IN IF P = {} THEN 0
     ELSE CHOOSE i \in P : \A k \in P : table[k].created_at <= table[i].created_at

\* respond_after_confirmation without the test of the decision
respond_after_confirmation_echo(approved, tool_result_message) == tool_result_message

\* AgentService.respond_after_confirmation
respond_after_confirmation(approved, tool_result_message) ==
  IF approved THEN tool_result_message ELSE Understood

\* JobRepository.get without the user filter
JobRepository_get_any_user(table, c, id) ==
  IF id \in DOMAIN table /\ table[id].tenant = c.tenant THEN id ELSE 0

\* JobRepository.get: id, tenant and user filter
JobRepository_get(table, c, id) ==
  IF /\ id \in DOMAIN table
     /\ table[id].tenant = c.tenant
     /\ table[id].user = c.user
  THEN id ELSE 0

\* ---------------------------------------------------------------- rows
\* a confirmation created as already approved
create_pending_resolved(c, tool_name, payload, now) ==
  [tenant |-> c.tenant, user |-> c.user, session |-> c.session,
   tool_name |-> tool_name, payload |-> payload, status |-> "approved",
   created_at |-> now, resolved_at |-> now]

\* ConfirmationRepository.create_pending
create_pending(c, tool_name, payload, now) ==
  [tenant |-> c.tenant, user |-> c.user, session |-> c.session,
   tool_name |-> tool_name, payload |-> payload, status |-> "pending",
   created_at |-> now, resolved_at |-> 0]

\* JobRepository.create
JobRepository_create(c, job_type, repo_url) ==
  [tenant |-> c.tenant, user |-> c.user, job_type |-> job_type, status |-> "queued",
   payload |-> [repo_url |-> repo_url], result |-> None, error |-> None,
   started_at |-> 0, completed_at |-> 0]

\* a lookup that returns the default whatever the dict holds
payload_get_default(payload, key, default) == default

\* dict.get(key, default) on the items of a payload
payload_get(payload, key, default) ==
  IF \E x \in payload : x[1] = key
    THEN (CHOOSE x \in payload : x[1] = key)[2]
    ELSE default

\* chat.py 83-90 and 178-185: the keyword arguments of the create call
candidate_kwargs(payload) ==
  [contact_info |-> payload_get(payload, "contact_info", EmptyDict),
   skills |-> payload_get(payload, "skills", EmptyList),
   experience |-> payload_get(payload, "experience", EmptyList),
   projects |-> payload_get(payload, "projects", EmptyList),
   education |-> payload_get(payload, "education", EmptyList)]

\* CandidateRepository.create
CandidateRepository_create(c, kw) ==
  [tenant |-> c.tenant, user |-> c.user, contact_info |-> kw.contact_info,
   skills |-> kw.skills, experience |-> kw.experience, projects |-> kw.projects,
   education |-> kw.education, raw_text |-> None]

\* MessageRepository.add
MessageRepository_add(c, role, content, now) ==
  [tenant |-> c.tenant, session |-> c.session, role |-> role, content |-> content,
   created_at |-> now]

\* responses
NoResp == [rid |-> 0, route |-> "", tenant |-> "", user |-> "", session |-> "",
           message |-> "", approved |-> FALSE, code |-> 0, type |-> "", content |-> Text(""),
           confirmation_id |-> 0, next_action |-> "", job_id |-> 0, job |-> None,
           history |-> <<>>, summary |-> <<>>]

\* the response to request r (the request is kept with it), with an HTTP status code
Resp(rid, r, code) ==
  [NoResp EXCEPT !.rid = rid, !.route = r.kind, !.tenant = r.tenant, !.user = r.user,
                 !.session = r.session, !.message = r.message, !.approved = r.approved,
                 !.confirmation_id = r.confirmation_id, !.code = code]

\* a request as received: the scope, the body, and an empty transaction
Request(kind, c, message, confirmation_id, approved) ==
  [kind |-> kind, tenant |-> c.tenant, user |-> c.user, session |-> c.session,
   message |-> message, confirmation_id |-> confirmation_id, approved |-> approved,
   pc |-> "begin", pending |-> 0, waits |-> 0,
   d_session |-> FALSE, d_msgs |-> <<>>, d_confs |-> <<>>, d_jobs |-> <<>>,
   d_cands |-> <<>>, d_resolve |-> "", msg |-> Text(""), bg |-> <<>>]

Scope(r) == [tenant |-> r.tenant, user |-> r.user, session |-> r.session]

\* background_tasks.add_task(run_github_ingestion_job, job.id)
JobTask(job) ==
  [kind |-> "job", job |-> job, tenant |-> "", session |-> "", pc |-> "start",
   repo_url |-> <<>>, existing |-> {}]

\* background_tasks.add_task(update_session_summary_if_needed, tenant_id, session_id)
SummaryTask(c) ==
  [kind |-> "summary", job |-> 0, tenant |-> c.tenant, session |-> c.session, pc |-> "start",
   repo_url |-> <<>>, existing |-> {}]

\* ---------------------------------------------------------------- initial state
Init ==
  /\ sessions = <<>>
  /\ messages = <<>>
  /\ confs = <<>>
  /\ jobs = <<>>
  /\ candidates = <<>>
  /\ repositories = {}
  /\ summaries = <<>>
  /\ reqs = <<>>
  /\ background = <<>>
  /\ exit_last \in BOOLEAN
  /\ nreq = 0
  /\ used = [turn |-> 0, upload |-> 0, resolve |-> 0]
  /\ nextConf = 0
  /\ nextJob = 0
  /\ lastResp = NoResp
  /\ origin = [job |-> <<>>, cand |-> <<>>]

\* ---------------------------------------------------------------- transactions
InFlight == DOMAIN reqs

Quota == [turn |-> MaxTurns, upload |-> MaxUploads, resolve |-> MaxResolves]

\* a request of the kind is received: it gets the next request id
Accept(kind) ==
  /\ used[kind] < Quota[kind]
  /\ Cardinality(InFlight) < MaxInflight
  /\ nreq' = nreq + 1
  /\ used' = [used EXCEPT ![kind] = @ + 1]

RECURSIVE Insert(_, _)
Insert(table, rows) ==
  IF rows = <<>> THEN table
  ELSE Insert((rows[1].id :> rows[1].row) @@ table, Tail(rows))

\* the request a row is created by, as kept in origin
By(r) == [kind |-> r.kind, message |-> r.message, approved |-> r.approved, confirmation |-> r.pending]

\* get_db, session.commit(): the writes of the transaction reach the tables
CommitWrites(rid, r) ==
  LET inserted == Insert(confs, r.d_confs)
  IN /\ sessions' = IF r.d_session
                      THEN (r.session :> [tenant |-> r.tenant, user |-> r.user]) @@ sessions
                      ELSE sessions
     /\ messages' = messages \o r.d_msgs
     /\ confs' = IF r.d_resolve = "" THEN inserted
                 ELSE [inserted EXCEPT ![r.pending].status = r.d_resolve,
                                       ![r.pending].resolved_at = rid]
     /\ jobs' = Insert(jobs, r.d_jobs)
     /\ candidates' = candidates \o [i \in 1..Len(r.d_cands) |-> r.d_cands[i].row]
     /\ origin' = [job |-> [i \in { r.d_jobs[k].id : k \in 1..Len(r.d_jobs) } |-> By(r)] @@ origin.job,
                   cand |-> origin.cand \o [i \in 1..Len(r.d_cands) |-> By(r)]]

\* what every request step leaves alone
Untouched == UNCHANGED << repositories, summaries, exit_last >>

\* a failing handler whose transaction is committed all the same
Fail_committing(rid, r, code) ==
  /\ reqs' = Remove(reqs, rid)
  /\ lastResp' = Resp(rid, r, code)
  /\ CommitWrites(rid, r)
  /\ UNCHANGED background
  /\ Untouched

\* get_db, session.rollback(): a handler raised, nothing of it persists and its
\* background tasks are not run
Fail(rid, r, code) ==
  /\ reqs' = Remove(reqs, rid)
  /\ lastResp' = Resp(rid, r, code)
  /\ UNCHANGED << sessions, messages, confs, jobs, candidates, origin, background >>
  /\ Untouched

\* the handler of rid goes on with the transaction state r
Continue(rid, r) ==
  /\ reqs' = (rid :> r) @@ reqs
  /\ lastResp' = NoResp
  /\ UNCHANGED << sessions, messages, confs, jobs, candidates, origin, background >>
  /\ Untouched

\* the handler returned: the response is sent; its background tasks run and the
\* transaction commits, in the order of exit_last
Return(rid, r, resp) ==
  /\ lastResp' = resp
  /\ background' = IF r.bg = <<>> THEN background ELSE (rid :> r.bg) @@ background
  /\ IF exit_last /\ r.bg # <<>>
       THEN /\ reqs' = (rid :> [r EXCEPT !.pc = "background"]) @@ reqs
            /\ UNCHANGED << sessions, messages, confs, jobs, candidates, origin >>
       ELSE /\ reqs' = Remove(reqs, rid)
            /\ CommitWrites(rid, r)
  /\ Untouched

\* get_db commits after the background tasks of the response have run
Commit(rid) ==
  /\ rid \in InFlight
  /\ reqs[rid].pc = "background"
  /\ rid \notin DOMAIN background
  /\ reqs' = Remove(reqs, rid)
  /\ CommitWrites(rid, reqs[rid])
  /\ lastResp' = NoResp
  /\ UNCHANGED << background, nreq, used, nextConf, nextJob >>
  /\ Untouched

\* the row lock of an uncommitted UPDATE of confirmation id, held by another request
Locked(rid, id) ==
  \E q \in InFlight \ {rid} : reqs[q].d_resolve # "" /\ reqs[q].pending = id

\* ---------------------------------------------------------------- memory window
\* MessageRepository.count / get_recent / get_oldest: rows of the tenant and session
session_rows(table, tenant, session) ==
  { i \in 1..Len(table) : table[i].tenant = tenant /\ table[i].session = session }

\* a window that is the last n rows in the order they were appended
get_recent_appended(table, tenant, session, n) ==
  LET R == session_rows(table, tenant, session)
      k == IF Cardinality(R) < n THEN Cardinality(R) ELSE n
  IN { q \in [1..k -> R] :
         /\ \A i, j \in 1..k : i < j => q[i] < q[j]
         /\ \A i \in 1..k : \A x \in R \ { q[j] : j \in 1..k } : x < q[i] }

\* MessageRepository.get_recent: the results ORDER BY created_at DESC LIMIT n,
\* reversed, can give; rows of one transaction carry the same created_at and
\* come in any order
get_recent(table, tenant, session, n) ==
  LET R == session_rows(table, tenant, session)
      k == IF Cardinality(R) < n THEN Cardinality(R) ELSE n
  IN { q \in [1..k -> R] :
         /\ \A i, j \in 1..k : i < j => q[i] # q[j] /\ table[q[i]].created_at <= table[q[j]].created_at
         /\ \A i \in 1..k : \A x \in R \ { q[j] : j \in 1..k } :
               table[x].created_at <= table[q[i]].created_at }

\* the empty summary text
NoSummary == <<>>

\* memory.py get_context: the (role, content) pairs of the window and the
\* Summary text, "" when the session has none (the workspace text is left out)
get_context(table, summ, tenant, session) ==
  { [recent |-> [i \in 1..Len(q) |-> << table[q[i]].role, table[q[i]].content >>],
     summary |-> IF <<tenant, session>> \in DOMAIN summ THEN summ[<<tenant, session>>]
                 ELSE NoSummary]
      : q \in get_recent(table, tenant, session, W) }

\* agent.py 255-263: the history given to the engine is the window followed by
\* the current message
lc_messages(ctx, message) == Append(ctx.recent, << "user", message >>)

\* ---------------------------------------------------------------- the decision turn
\* AgentService.chat: what the reasoning engine can come back with
Decisions ==
  { [type |-> "confirmation", tool_name |-> "ingest_github", payload |-> GithubPayload(u),
     content |-> CrawlPrompt(u)] : u \in Urls }
  \cup
  { [type |-> "confirmation", tool_name |-> "save_candidate", payload |-> CandidatePayload(cv),
     content |-> SavePrompt] : cv \in ParsedCVs }
  \cup
  { [type |-> "message", tool_name |-> "", payload |-> GithubPayload(<<>>), content |-> t]
      : t \in {LLMReply} \cup { CrawlPrompt(u) : u \in Urls } }
  \cup
  { [type |-> "error", tool_name |-> "", payload |-> GithubPayload(<<>>), content |-> Text("")] }

\* chat.py 122-147 and AgentService.chat; the history and the Summary the engine
\* was given are kept with the response
Decide(rid, r, result) ==
  IF result.type = "error"
    THEN /\ Fail(rid, r, 500)
         /\ UNCHANGED nextConf
  ELSE IF result.type = "confirmation"
    THEN LET id == nextConf + 1
         IN /\ nextConf' = id
            /\ \E ctx \in get_context(messages \o r.d_msgs, summaries, r.tenant, r.session) :
                 Return(rid,
                   [r EXCEPT !.d_confs = Append(@, [id |-> id,
                                row |-> create_pending(Scope(r), result.tool_name, result.payload, rid)])],
                   [Resp(rid, r, 200) EXCEPT !.type = "confirmation",
                      !.content = result.content, !.confirmation_id = id,
                      !.history = lc_messages(ctx, r.message), !.summary = ctx.summary])
  ELSE /\ UNCHANGED nextConf
       /\ \E ctx \in get_context(messages \o r.d_msgs, summaries, r.tenant, r.session) :
            Return(rid,
              [r EXCEPT !.d_msgs = Append(@, MessageRepository_add(Scope(r), "assistant", result.content, rid)),
                        !.bg = Append(@, SummaryTask(Scope(r)))],
              [Resp(rid, r, 200) EXCEPT !.type = "message", !.content = result.content,
                 !.history = lc_messages(ctx, r.message), !.summary = ctx.summary])

\* ---------------------------------------------------------------- POST /chat
\* chat.py 61-66, 101-105, 122: append the user message, look for a pending
\* confirmation, and route the turn
Route(rid, r0, result) ==
  LET r == [r0 EXCEPT !.d_msgs = Append(@, MessageRepository_add(Scope(r0), "user", r0.message, rid))]
      pending == get_pending_for_session(confs, Scope(r))
  IN IF pending # 0 /\ is_yes_no(r.message)
       THEN /\ Continue(rid, [r EXCEPT !.pc = "act", !.pending = pending])
            /\ UNCHANGED nextConf
     ELSE IF is_yes_no(r.message)
       \* MessageRepository has no get_last_assistant_content: AttributeError
       THEN /\ Fail(rid, r, 500)
            /\ UNCHANGED nextConf
     ELSE Decide(rid, r, result)

\* SessionRepository.get_or_create, then the routing of the turn
ChatBegin(c, m, result) ==
  /\ Accept(IF is_yes_no(m) THEN "resolve" ELSE "turn")
  /\ UNCHANGED nextJob
  /\ LET rid == nreq + 1
         r == Request("chat", c, m, 0, FALSE)
         own == c.session \in DOMAIN sessions
                  /\ sessions[c.session] = [tenant |-> c.tenant, user |-> c.user]
         inserting == { q \in InFlight : reqs[q].d_session /\ reqs[q].session = c.session }
     IN IF own THEN Route(rid, r, result)
        ELSE IF c.session \in DOMAIN sessions
          \* INSERT of an existing primary key: IntegrityError
          THEN /\ Fail(rid, r, 500)
               /\ UNCHANGED nextConf
        ELSE IF inserting # {}
          \* the INSERT waits for the transaction that inserted the same id
          THEN /\ Continue(rid, [r EXCEPT !.pc = "session_wait",
                                          !.waits = CHOOSE q \in inserting : TRUE])
               /\ UNCHANGED nextConf
        ELSE Route(rid, [r EXCEPT !.d_session = TRUE], result)

\* the blocked INSERT of the Session row resumes when the other transaction ended
SessionWait(rid, result) ==
  /\ rid \in InFlight
  /\ reqs[rid].pc = "session_wait"
  /\ reqs[rid].waits \notin InFlight
  /\ UNCHANGED << nreq, used, nextJob >>
  /\ IF reqs[rid].session \in DOMAIN sessions
       THEN /\ Fail(rid, reqs[rid], 500)
            /\ UNCHANGED nextConf
       ELSE Route(rid, [reqs[rid] EXCEPT !.d_session = TRUE, !.waits = 0], result)

\* ---------------------------------------------------------------- POST /confirm
\* chat.py 156-161
ConfirmBegin(c, id, approved) ==
  /\ Accept("resolve")
  /\ UNCHANGED << nextConf, nextJob >>
  /\ LET rid == nreq + 1
         r == Request("confirm", c, "", id, approved)
         conf == get_pending(confs, c, id)
     IN IF conf = 0 THEN Fail(rid, r, 404)
        ELSE Continue(rid, [r EXCEPT !.pc = "act", !.pending = conf])

\* ---------------------------------------------------------------- resolution
\* the decision read from the approved field of the request body alone
Approved_body(r) == r.approved

Approved(r) == IF r.kind = "chat" THEN approved_from_message(r.message) ELSE r.approved

\* chat.py 95-99 and 192-200: the follow-up message and the response
Finish(rid, r0) ==
  LET approved == Approved(r0)
      follow_up == respond_after_confirmation(approved, r0.msg)
      r == [r0 EXCEPT !.d_msgs = Append(@, MessageRepository_add(Scope(r0), "assistant", follow_up, rid)),
                      !.bg = IF r0.kind = "chat" THEN Append(@, SummaryTask(Scope(r0))) ELSE @]
  IN Return(rid, r,
       IF r.kind = "chat"
         THEN [Resp(rid, r, 200) EXCEPT !.type = "message", !.content = follow_up]
         ELSE [Resp(rid, r, 200) EXCEPT !.content = r.msg,
                 !.job_id = IF r.d_jobs = <<>> THEN 0 ELSE r.d_jobs[1].id,
                 !.next_action = IF r.d_jobs # <<>> THEN "ingest_started"
                                 ELSE IF r.d_cands # <<>> THEN "candidate_saved" ELSE ""])

\* the resolution that starts no action
Consequent_recorded(r, conf, job) == [r EXCEPT !.msg = ConfirmationRecorded]

\* the consequent action without the test of the decision
Consequent_unapproved(r, conf, job) ==
  IF conf.tool_name = "ingest_github" /\ conf.payload.repo_url # <<>>
    THEN [r EXCEPT !.d_jobs = Append(@, [id |-> job,
                                  row |-> JobRepository_create(Scope(r), "github_ingestion",
                                                               conf.payload.repo_url)]),
                   !.msg = IngestStarted(job),
                   !.bg = Append(@, JobTask(job))]
  ELSE IF conf.tool_name = "save_candidate"
    THEN [r EXCEPT !.d_cands = Append(@, [row |-> CandidateRepository_create(Scope(r), candidate_kwargs(conf.payload.candidate))]),
                   !.msg = CandidateSaved]
  ELSE [r EXCEPT !.msg = ConfirmationRecorded]

\* chat.py 67-94 and 163-190: the consequent action of the decision
Consequent(r, conf, job) ==
  IF Approved(r) /\ conf.tool_name = "ingest_github" /\ conf.payload.repo_url # <<>>
    THEN [r EXCEPT !.d_jobs = Append(@, [id |-> job,
                                  row |-> JobRepository_create(Scope(r), "github_ingestion",
                                                               conf.payload.repo_url)]),
                   !.msg = IngestStarted(job),
                   !.bg = Append(@, JobTask(job))]
  ELSE IF Approved(r) /\ conf.tool_name = "save_candidate"
    THEN [r EXCEPT !.d_cands = Append(@, [row |-> CandidateRepository_create(Scope(r), candidate_kwargs(conf.payload.candidate))]),
                   !.msg = CandidateSaved]
  ELSE [r EXCEPT !.msg = ConfirmationRecorded]

\* the consequent action, then ConfirmationRepository.resolve looks the row up
\* again as pending: not found, resolve does nothing
Act(rid) ==
  /\ rid \in InFlight
  /\ reqs[rid].pc = "act"
  /\ UNCHANGED << nreq, used, nextConf >>
  /\ LET r == Consequent(reqs[rid], confs[reqs[rid].pending], nextJob + 1)
     IN /\ nextJob' = nextJob + Len(r.d_jobs)
        /\ IF get_pending(confs, Scope(r), r.pending) = 0
             THEN Finish(rid, r)
             ELSE Continue(rid, [r EXCEPT !.pc = "update"])

\* ConfirmationRepository.resolve: the UPDATE of the row found; it waits while
\* another transaction holds an uncommitted UPDATE of the same row
Update(rid) ==
  /\ rid \in InFlight
  /\ reqs[rid].pc = "update"
  /\ ~Locked(rid, reqs[rid].pending)
  /\ UNCHANGED << nreq, used, nextConf, nextJob >>
  /\ Finish(rid, [reqs[rid] EXCEPT !.d_resolve = IF Approved(reqs[rid]) THEN "approved" ELSE "denied"])

\* ---------------------------------------------------------------- POST /upload/cv
\* upload.py 47-65
Upload(c, cv) ==
  /\ Accept("upload")
  /\ UNCHANGED nextJob
  /\ LET rid == nreq + 1
         id == nextConf + 1
         r == Request("upload", c, "", 0, FALSE)
     IN /\ nextConf' = id
        /\ Return(rid,
             [r EXCEPT !.d_confs = Append(@, [id |-> id,
                          row |-> create_pending(c, "save_candidate", CandidatePayload(cv), rid)])],
             [Resp(rid, r, 200) EXCEPT !.content = SavePrompt, !.confirmation_id = id])

\* ---------------------------------------------------------------- GET /jobs/{job_id}
\* jobs.py 13-38
get_job_status(table, c, job_id) ==
  LET job == JobRepository_get(table, c, job_id)
  IN IF job = 0 THEN [code |-> 404, job |-> None]
     ELSE [code |-> 200,
           job |-> Some([id |-> job, job_type |-> table[job].job_type, status |-> table[job].status,
                         payload |-> table[job].payload, result |-> table[job].result,
                         error |-> table[job].error, completed_at |-> table[job].completed_at])]

\* a status query has no request id of its own: it writes nothing
JobStatus(c, job_id) ==
  /\ LET out == get_job_status(jobs, c, job_id)
     IN lastResp' = [Resp(0, Request("jobs", c, "", 0, FALSE), out.code)
                       EXCEPT !.job_id = job_id, !.job = out.job]
  /\ UNCHANGED << db, reqs, background, exit_last, nreq, used, nextConf, nextJob, origin >>

\* ---------------------------------------------------------------- URL normalisation
\* RepositoryRepository._normalize_url on token sequences: " " is white space,
\* "/" a slash, "?" the start of a query string, "https://" a scheme
RECURSIVE lstrip(_, _)
lstrip(url, ch) == IF url # <<>> /\ Head(url) = ch THEN lstrip(Tail(url), ch) ELSE url

RECURSIVE rstrip(_, _)
rstrip(url, ch) ==
  IF url # <<>> /\ url[Len(url)] = ch THEN rstrip(SubSeq(url, 1, Len(url) - 1), ch) ELSE url

strip(url) == rstrip(lstrip(url, " "), " ")

RECURSIVE before_query(_)
before_query(url) ==
  IF url = <<>> \/ Head(url) = "?" THEN <<>> ELSE <<Head(url)>> \o before_query(Tail(url))

normalize_url(url) ==
  LET u1 == rstrip(strip(url), "/")
      u2 == IF u1 # <<>> /\ Head(u1) \in {"http://", "https://"} THEN u1
            ELSE <<"https://", "github.com", "/">> \o lstrip(u1, "/")
  IN before_query(u2)

\* ---------------------------------------------------------------- background tasks
\* BackgroundTasks runs the tasks of a response one after the other
Running(rid) == background[rid][1]

\* the running task of rid ended
Done(rid) ==
  /\ background' = IF Len(background[rid]) = 1 THEN Remove(background, rid)
                   ELSE [background EXCEPT ![rid] = Tail(@)]
  /\ UNCHANGED reqs

\* the running task of rid goes on as t
Goes(rid, t) ==
  /\ background' = [background EXCEPT ![rid][1] = t]
  /\ UNCHANGED reqs

\* the running task raised: the tasks after it are not run, and when get_db has
\* not run its exit code yet the exception reaches it: session.rollback()
Raised(rid) ==
  /\ background' = Remove(background, rid)
  /\ reqs' = IF rid \in InFlight THEN Remove(reqs, rid) ELSE reqs

\* jobs.py 13-25: pick the job up
RunnerStart(rid) ==
  /\ rid \in DOMAIN background
  /\ Running(rid).kind = "job"
  /\ Running(rid).pc = "start"
  /\ LET id == Running(rid).job
     IN IF id \notin DOMAIN jobs \/ jobs[id].status # "queued"
          THEN /\ Done(rid)
               /\ UNCHANGED jobs
          ELSE /\ jobs' = [jobs EXCEPT ![id].status = "running", ![id].started_at = 1]
               /\ Goes(rid, [Running(rid) EXCEPT !.pc = "fetch",
                                                 !.repo_url = jobs[id].payload.repo_url])
  /\ UNCHANGED << sessions, messages, confs, candidates, repositories, summaries,
                  exit_last, nreq, used, nextConf, nextJob, origin >>
  /\ lastResp' = NoResp

\* ---------------------------------------------------------------- the fetch
\* github_ingest.py 34: @retry(stop=stop_after_attempt(3), ...)
stop_after_attempt == 3

\* what one attempt of _get meets: a 200 response, a 403 rate-limit response, a
\* network error raised by the client, or another status (404)
GetOutcomes == {"ok", "rate_limited", "network_error", "http_404"}

\* the outcomes of the successive attempts of one request; one more than
\* stop_after_attempt, so that an attempt too many would show
Attempts == [1..(stop_after_attempt + 1) -> GetOutcomes]

\* _get without the retry decorator: whatever the first attempt meets
get_once(outcomes, attempt) ==
  [attempts |-> attempt,
   status |-> IF outcomes[attempt] = "ok" THEN 200
              ELSE IF outcomes[attempt] = "http_404" THEN 404 ELSE 0,
   raised |-> IF outcomes[attempt] = "rate_limited" THEN "Rate limited"
              ELSE IF outcomes[attempt] = "network_error" THEN "ConnectError" ELSE ""]

\* github_ingest.py 34-44, _get under tenacity's retry: a rate-limit response
\* and a raised network error are retried until stop_after_attempt attempts
\* were made, then RetryError is raised; any other response is returned
RECURSIVE get(_, _)
get(outcomes, attempt) ==
  IF outcomes[attempt] \in {"rate_limited", "network_error"}
    THEN IF attempt >= stop_after_attempt
           THEN [attempts |-> attempt, status |-> 0, raised |-> "RetryError"]
           ELSE get(outcomes, attempt + 1)
    ELSE [attempts |-> attempt,
          status |-> IF outcomes[attempt] = "ok" THEN 200 ELSE 404,
          raised |-> ""]

\* github_ingest.py 70-153, ingest_github_repo: the repository request, then
\* the contents request; an exception of either leaves the function, and a
\* repository response other than 200 raises ValueError
ingest_github_repo(repo, contents) ==
  LET r == get(repo, 1)
      c == get(contents, 1)
  IN IF r.raised # "" THEN [raised |-> r.raised, requests |-> << r.attempts >>]
     ELSE IF r.status # 200
       THEN [raised |-> "Cannot access repository", requests |-> << r.attempts >>]
     ELSE IF c.raised # "" THEN [raised |-> c.raised, requests |-> << r.attempts, c.attempts >>]
     ELSE [raised |-> "", requests |-> << r.attempts, c.attempts >>]

\* what a call of ingest_github_repo can come to
FetchResults == { ingest_github_repo(repo, contents) : repo \in Attempts, contents \in Attempts }

\* the texts of the exceptions ingest_github_repo can raise
FetchErrors == { res.raised : res \in FetchResults } \ {""}

\* a failure branch that marks the job failed without recording the error
RunnerFailed_blank(rid) ==
  /\ rid \in DOMAIN background
  /\ Running(rid).pc = "fetch"
  /\ jobs' = [jobs EXCEPT ![Running(rid).job].status = "failed",
                          ![Running(rid).job].completed_at = 1]
  /\ Done(rid)
  /\ UNCHANGED << sessions, messages, confs, candidates, repositories, summaries,
                  exit_last, nreq, used, nextConf, nextJob, origin >>
  /\ lastResp' = NoResp

\* the failure branch also taken for an error after the fetch
RunnerFailed_late(rid) ==
  /\ rid \in DOMAIN background
  /\ Running(rid).pc \in {"fetch", "store"}
  /\ jobs' = [jobs EXCEPT ![Running(rid).job].status = "failed",
                          ![Running(rid).job].error = Some("RetryError"),
                          ![Running(rid).job].completed_at = 1]
  /\ Done(rid)
  /\ UNCHANGED << sessions, messages, confs, candidates, repositories, summaries,
                  exit_last, nreq, used, nextConf, nextJob, origin >>
  /\ lastResp' = NoResp

\* jobs.py 27-38: the fetch raised
RunnerFailed(rid) ==
  /\ rid \in DOMAIN background
  /\ Running(rid).pc = "fetch"
  /\ \E e \in FetchErrors :
       jobs' = [jobs EXCEPT ![Running(rid).job].status = "failed",
                            ![Running(rid).job].error = Some(e),
                            ![Running(rid).job].completed_at = 1]
  /\ Done(rid)
  /\ UNCHANGED << sessions, messages, confs, candidates, repositories, summaries,
                  exit_last, nreq, used, nextConf, nextJob, origin >>
  /\ lastResp' = NoResp

\* RepositoryRepository.get_by_url
get_by_url(table, tenant, user, repo_url) ==
  { row \in table : /\ row.tenant = tenant
                    /\ row.user = user
                    /\ row.normalized_url = normalize_url(repo_url) }

\* jobs.py 40-48 and the SELECT of create_or_update: the job is committed as
\* succeeded, then the Repository row is looked up
RunnerSucceeded(rid) ==
  /\ rid \in DOMAIN background
  /\ Running(rid).pc = "fetch"
  /\ "" \in { res.raised : res \in FetchResults }
  /\ LET t == Running(rid)
     IN /\ jobs' = [jobs EXCEPT ![t.job].status = "succeeded",
                                ![t.job].result = Some([repo_url |-> t.repo_url, ingested |-> TRUE]),
                                ![t.job].completed_at = 1]
        /\ Goes(rid, [t EXCEPT !.pc = "store",
                               !.existing = get_by_url(repositories, jobs[t.job].tenant,
                                                       jobs[t.job].user, t.repo_url)])
  /\ UNCHANGED << sessions, messages, confs, candidates, repositories, summaries,
                  exit_last, nreq, used, nextConf, nextJob, origin >>
  /\ lastResp' = NoResp

\* RepositoryRepository.create_or_update and jobs.py 58: update the row found, or
\* insert one; scalar_one_or_none raises when several rows were found
RunnerStore(rid) ==
  /\ rid \in DOMAIN background
  /\ Running(rid).pc = "store"
  /\ LET t == Running(rid)
     IN IF Cardinality(t.existing) > 1
          THEN /\ Raised(rid)
               /\ UNCHANGED repositories
        ELSE /\ Done(rid)
             /\ repositories' =
                  IF t.existing # {}
                    THEN { IF row.id \in { e.id : e \in t.existing }
                             THEN [row EXCEPT !.data = t.job] ELSE row : row \in repositories }
                    ELSE repositories \cup
                           {[id |-> t.job, tenant |-> jobs[t.job].tenant, user |-> jobs[t.job].user,
                             repo_url |-> t.repo_url, normalized_url |-> normalize_url(t.repo_url),
                             data |-> t.job]}
  /\ UNCHANGED << sessions, messages, confs, jobs, candidates, summaries,
                  exit_last, nreq, used, nextConf, nextJob, origin >>
  /\ lastResp' = NoResp

\* ---------------------------------------------------------------- compaction
\* the reasoning engine as a compaction finds it: summary.py 20 (no API key),
\* summary.py 39 (llm.invoke returns, or raises)
LLM == {"ok", "fails", "unconfigured"}

\* the results ORDER BY created_at ASC LIMIT n can give: rows of one
\* transaction carry the same created_at and come in any order
get_oldest(table, tenant, session, n) ==
  LET R == session_rows(table, tenant, session)
      k == IF Cardinality(R) < n THEN Cardinality(R) ELSE n
  IN { q \in [1..k -> R] :
         /\ \A i, j \in 1..k : i < j => q[i] # q[j] /\ table[q[i]].created_at <= table[q[j]].created_at
         /\ \A i \in 1..k : \A x \in R \ { q[j] : j \in 1..k } :
               table[q[i]].created_at <= table[x].created_at }

\* the compaction with the threshold at one window instead of two
Compaction_above_window(rid, llm) ==
  /\ rid \in DOMAIN background
  /\ Running(rid).kind = "summary"
  /\ LET t == Running(rid)
     IN IF llm = "unconfigured" \/ Cardinality(session_rows(messages, t.tenant, t.session)) <= W
          THEN /\ Done(rid)
               /\ UNCHANGED summaries
        ELSE IF llm = "fails"
          THEN /\ Raised(rid)
               /\ UNCHANGED summaries
        ELSE /\ Done(rid)
             /\ \E oldest \in get_oldest(messages, t.tenant, t.session, W) :
                  summaries' = (<<t.tenant, t.session>> :>
                                  [i \in 1..Len(oldest) |-> [role |-> messages[oldest[i]].role,
                                                            content |-> messages[oldest[i]].content]])
                               @@ summaries
  /\ UNCHANGED << sessions, messages, confs, jobs, candidates, repositories,
                  exit_last, nreq, used, nextConf, nextJob, origin >>
  /\ lastResp' = NoResp

\* a compaction that deletes the messages it has summarised
Compaction_deleting(rid, llm) ==
  /\ rid \in DOMAIN background
  /\ Running(rid).kind = "summary"
  /\ LET t == Running(rid)
     IN IF llm = "unconfigured" \/ Cardinality(session_rows(messages, t.tenant, t.session)) <= 2 * W
          THEN /\ Done(rid)
               /\ UNCHANGED << summaries, messages >>
        ELSE IF llm = "fails"
          THEN /\ Raised(rid)
               /\ UNCHANGED << summaries, messages >>
        ELSE /\ Done(rid)
             /\ \E oldest \in get_oldest(messages, t.tenant, t.session, W) :
                  /\ summaries' = (<<t.tenant, t.session>> :>
                                     [i \in 1..Len(oldest) |-> [role |-> messages[oldest[i]].role,
                                                               content |-> messages[oldest[i]].content]])
                                  @@ summaries
                  /\ messages' = SelectSeq([i \in 1..Len(messages) |->
                                              IF i \in { oldest[k] : k \in 1..Len(oldest) }
                                                THEN [messages[i] EXCEPT !.role = "deleted"]
                                                ELSE messages[i]],
                                           LAMBDA m : m.role # "deleted")
  /\ UNCHANGED << sessions, confs, jobs, candidates, repositories,
                  exit_last, nreq, used, nextConf, nextJob, origin >>
  /\ lastResp' = NoResp

\* summary.py 13-45; the summary text stands for the block it was made from.
\* Nothing catches an exception of llm.invoke: it leaves the task
Compaction(rid, llm) ==
  /\ rid \in DOMAIN background
  /\ Running(rid).kind = "summary"
  /\ LET t == Running(rid)
     IN IF llm = "unconfigured" \/ Cardinality(session_rows(messages, t.tenant, t.session)) <= 2 * W
          THEN /\ Done(rid)
               /\ UNCHANGED summaries
        ELSE IF llm = "fails"
          THEN /\ Raised(rid)
               /\ UNCHANGED summaries
        ELSE /\ Done(rid)
             /\ \E oldest \in get_oldest(messages, t.tenant, t.session, W) :
                  summaries' = (<<t.tenant, t.session>> :>
                                  [i \in 1..Len(oldest) |-> [role |-> messages[oldest[i]].role,
                                                            content |-> messages[oldest[i]].content]])
                               @@ summaries
  /\ UNCHANGED << sessions, messages, confs, jobs, candidates, repositories,
                  exit_last, nreq, used, nextConf, nextJob, origin >>
  /\ lastResp' = NoResp

\* ---------------------------------------------------------------- specification
Next ==
  \/ \E c \in Callers, m \in UserMessages, result \in Decisions : ChatBegin(c, m, result)
  \/ \E rid \in InFlight, result \in Decisions : SessionWait(rid, result)
  \/ \E c \in Callers, id \in 1..nextConf, approved \in BOOLEAN : ConfirmBegin(c, id, approved)
  \/ \E rid \in InFlight : Act(rid)
  \/ \E rid \in InFlight : Update(rid)
  \/ \E c \in Callers, cv \in ParsedCVs : Upload(c, cv)
  \/ \E rid \in InFlight : Commit(rid)
  \/ \E c \in Pollers, job_id \in 1..nextJob : JobStatus(c, job_id)
  \/ \E rid \in DOMAIN background : RunnerStart(rid)
  \/ \E rid \in DOMAIN background : RunnerFailed(rid)
  \/ \E rid \in DOMAIN background : RunnerSucceeded(rid)
  \/ \E rid \in DOMAIN background : RunnerStore(rid)
  \/ \E rid \in DOMAIN background, llm \in LLM : Compaction(rid, llm)

Spec == Init /\ [][Next]_vars

\* the caller sends the requests of a session one after the other: a request is
\* received when no other is being handled
Idle == InFlight = {}

NextSerial ==
  \/ \E c \in Callers, m \in UserMessages, result \in Decisions : Idle /\ ChatBegin(c, m, result)
  \/ \E c \in Callers, id \in 1..nextConf, approved \in BOOLEAN : Idle /\ ConfirmBegin(c, id, approved)
  \/ \E rid \in InFlight : Act(rid)
  \/ \E rid \in InFlight : Update(rid)
  \/ \E c \in Callers, cv \in ParsedCVs : Idle /\ Upload(c, cv)
  \/ \E rid \in InFlight : Commit(rid)
  \/ \E c \in Pollers, job_id \in 1..nextJob : JobStatus(c, job_id)
  \/ \E rid \in DOMAIN background : RunnerStart(rid)
  \/ \E rid \in DOMAIN background : RunnerFailed(rid)
  \/ \E rid \in DOMAIN background : RunnerSucceeded(rid)
  \/ \E rid \in DOMAIN background : RunnerStore(rid)
  \/ \E rid \in DOMAIN background, llm \in LLM : Compaction(rid, llm)

SpecSerial == Init /\ [][NextSerial]_vars

\* two users of one tenant that name the same session id in their requests
Team ==
  { c \in Scopes : c.tenant = "t1" /\ c.session = "s1" }

\* the requests of the two users, one after the other
NextTeam ==
  \/ \E c \in Team, m \in UserMessages, result \in Decisions : Idle /\ ChatBegin(c, m, result)
  \/ \E c \in Team, id \in 1..nextConf, approved \in BOOLEAN : Idle /\ ConfirmBegin(c, id, approved)
  \/ \E rid \in InFlight : Act(rid)
  \/ \E rid \in InFlight : Update(rid)
  \/ \E c \in Team, cv \in ParsedCVs : Idle /\ Upload(c, cv)
  \/ \E rid \in InFlight : Commit(rid)
  \/ \E c \in Pollers, job_id \in 1..nextJob : JobStatus(c, job_id)
  \/ \E rid \in DOMAIN background : RunnerStart(rid)
  \/ \E rid \in DOMAIN background : RunnerFailed(rid)
  \/ \E rid \in DOMAIN background : RunnerSucceeded(rid)
  \/ \E rid \in DOMAIN background : RunnerStore(rid)
  \/ \E rid \in DOMAIN background, llm \in LLM : Compaction(rid, llm)

SpecTeam == Init /\ [][NextTeam]_vars

\* the handlers and the background tasks are scheduled fairly, and the fetch of
\* a running job ends, with data or with an exception
SpecFair ==
  /\ SpecSerial
  /\ WF_vars(\E rid \in InFlight : Act(rid))
  /\ WF_vars(\E rid \in InFlight : Update(rid))
  /\ WF_vars(\E rid \in InFlight : Commit(rid))
  /\ WF_vars(\E rid \in DOMAIN background : RunnerStart(rid))
  /\ WF_vars(\E rid \in DOMAIN background : RunnerFailed(rid) \/ RunnerSucceeded(rid))
  /\ WF_vars(\E rid \in DOMAIN background : RunnerStore(rid))
  /\ WF_vars(\E rid \in DOMAIN background, llm \in LLM : Compaction(rid, llm))

\* ---------------------------------------------------------------- the runner on its own
\* run_github_ingestion_job taken by itself, for what it does when it is called
\* for a Job in any state, or called twice for one Job.  RunnerStart takes
\* jobs.py 16-22 as one step, which is exact while each Job has one runner;
\* here the SELECT and the UPDATE are the two steps they are: both are awaited,
\* and nothing locks the row between them.

\* jobs.py 16-19: SELECT the job; return when it is absent or not queued
RunnerSelect(rid) ==
  /\ rid \in DOMAIN background
  /\ Running(rid).kind = "job"
  /\ Running(rid).pc = "start"
  /\ LET id == Running(rid).job
     IN IF id \notin DOMAIN jobs \/ jobs[id].status # "queued"
          THEN Done(rid)
          ELSE Goes(rid, [Running(rid) EXCEPT !.pc = "picked"])
  /\ UNCHANGED << sessions, messages, confs, jobs, candidates, repositories, summaries,
                  exit_last, nreq, used, nextConf, nextJob, origin >>
  /\ lastResp' = NoResp

\* jobs.py 20-25: UPDATE the job to running by primary key, commit
RunnerMark(rid) ==
  /\ rid \in DOMAIN background
  /\ Running(rid).pc = "picked"
  /\ LET id == Running(rid).job
     IN /\ jobs' = [jobs EXCEPT ![id].status = "running", ![id].started_at = 1]
        /\ Goes(rid, [Running(rid) EXCEPT !.pc = "fetch",
                                          !.repo_url = jobs[id].payload.repo_url])
  /\ UNCHANGED << sessions, messages, confs, candidates, repositories, summaries,
                  exit_last, nreq, used, nextConf, nextJob, origin >>
  /\ lastResp' = NoResp

\* the Job row of id 1 in a given status, as the runner leaves it
JobIn(st, u) ==
  [JobRepository_create([tenant |-> "t1", user |-> "u1"], "github_ingestion", u) EXCEPT
     !.status = st,
     !.started_at = IF st = "queued" THEN 0 ELSE 1,
     !.completed_at = IF st \in {"succeeded", "failed"} THEN 1 ELSE 0,
     !.result = IF st = "succeeded" THEN Some([repo_url |-> u, ingested |-> TRUE]) ELSE None,
     !.error = IF st = "failed" THEN Some("RetryError") ELSE None]

\* a Repository row of the job's tenant and user
RepositoryRow(id, u) ==
  [id |-> id, tenant |-> "t1", user |-> "u1", repo_url |-> u,
   normalized_url |-> normalize_url(u), data |-> id]

\* the Repository tables the runner can meet: none, one row of the source, or
\* the two rows that two overlapping runners leave (create_or_update has no
\* unique constraint to stop them)
RepositoryTables ==
  { {}, {RepositoryRow(8, <<"acme/widget">>)},
    {RepositoryRow(8, <<"acme/widget">>), RepositoryRow(9, <<"acme/widget", "/">>)} }

\* the runner is called once or twice for job 1, which is absent or in any status
InitRunner ==
  /\ sessions = <<>>
  /\ messages = <<>>
  /\ confs = <<>>
  /\ candidates = <<>>
  /\ summaries = <<>>
  /\ reqs = <<>>
  /\ exit_last = FALSE
  /\ nreq = 2
  /\ used = [turn |-> 0, upload |-> 0, resolve |-> 0]
  /\ nextConf = 0
  /\ nextJob = 1
  /\ lastResp = NoResp
  /\ origin = [job |-> <<>>, cand |-> <<>>]
  /\ \E u \in Urls, st \in {"absent", "queued", "running", "succeeded", "failed"} :
       jobs = IF st = "absent" THEN <<>> ELSE (1 :> JobIn(st, u))
  /\ repositories \in RepositoryTables
  /\ \E calls \in {{1}, {1, 2}} : background = [rid \in calls |-> << JobTask(1) >>]

NextRunner ==
  \/ \E rid \in DOMAIN background : RunnerSelect(rid)
  \/ \E rid \in DOMAIN background : RunnerMark(rid)
  \/ \E rid \in DOMAIN background : RunnerFailed(rid)
  \/ \E rid \in DOMAIN background : RunnerSucceeded(rid)
  \/ \E rid \in DOMAIN background : RunnerStore(rid)

SpecRunner == InitRunner /\ [][NextRunner]_vars

\* ---------------------------------------------------------------- properties
\* a request that carries an explicit approval of the user
Explicit(o) ==
  \/ o.kind = "chat" /\ o.message \in {"yes", "y"}
  \/ o.kind = "confirm" /\ o.approved

\* C1: every Job row and every Candidate row, committed or still in the
\* transaction of its request, was created by a request that carried an explicit
\* approval: a bare yes/y chat message or a /confirm with approved = true.  No
\* decision turn, no upload and no denial creates one.
C1_OnlyApprovedRequestsCreate ==
  /\ \A j \in DOMAIN jobs : j \in DOMAIN origin.job /\ Explicit(origin.job[j])
  /\ \A i \in 1..Len(candidates) : i \in DOMAIN origin.cand /\ Explicit(origin.cand[i])
  /\ \A rid \in InFlight :
       reqs[rid].d_jobs # <<>> \/ reqs[rid].d_cands # <<>> => Explicit(By(reqs[rid]))

\* a Job approved in the chat and a Candidate exist, after a decision turn and an upload
C1_Witness ==
  /\ \E j \in DOMAIN jobs : origin.job[j].kind = "chat"
  /\ Len(candidates) > 0
  /\ used.turn > 0 /\ used.upload > 0

\* C2: once a confirmation is resolved (resolved_at set), its status and
\* resolved_at never change again, and every resolve attempt received from then
\* on (POST /confirm with either decision) reports not-found and creates no Job
\* and no Candidate.
C2_ResolvedIsFinal ==
  [][\A id \in DOMAIN confs : confs[id].resolved_at # 0 =>
       /\ confs'[id].status = confs[id].status
       /\ confs'[id].resolved_at = confs[id].resolved_at
       /\ (lastResp'.route = "confirm" /\ lastResp'.confirmation_id = id /\ lastResp'.rid > nreq)
            => lastResp'.code = 404 /\ jobs' = jobs /\ candidates' = candidates]_vars

\* C3: when resolves of one confirmation interleave, only the first to observe
\* pending writes the status: once the row is approved or denied its status stays,
\* and no request in flight acquires a status write for it.
C3_FirstResolveWins ==
  [][\A id \in DOMAIN confs : confs[id].status \in {"approved", "denied"} =>
       /\ confs'[id].status = confs[id].status
       /\ \A rid \in DOMAIN reqs' :
            reqs'[rid].pending = id /\ reqs'[rid].d_resolve # ""
              => rid \in InFlight /\ reqs[rid].d_resolve = reqs'[rid].d_resolve]_vars

\* C4: for every confirmation, over all interleavings of the requests that
\* target it, at most one consequent action is started: at most one Job or
\* Candidate has the confirmation as its cause.
C4_OneActionPerConfirmation ==
  \A id \in DOMAIN confs :
    Cardinality({ j \in DOMAIN jobs : origin.job[j].confirmation = id })
      + Cardinality({ i \in 1..Len(candidates) : origin.cand[i].confirmation = id }) <= 1

\* the steps a Job's status may take
StatusStep == { <<"queued", "running">>, <<"running", "succeeded">>, <<"running", "failed">> }

\* C5: a Job starts queued, and its status only ever moves queued -> running ->
\* succeeded or queued -> running -> failed: it never moves backwards, never
\* leaves succeeded or failed, and no Job row disappears; whatever the
\* interleaving of runner steps and status queries.
C5_JobLifecycle ==
  [][/\ DOMAIN jobs \subseteq DOMAIN jobs'
     /\ \A j \in DOMAIN jobs' :
          IF j \in DOMAIN jobs
            THEN \/ jobs'[j].status = jobs[j].status
                 \/ <<jobs[j].status, jobs'[j].status>> \in StatusStep
            ELSE jobs'[j].status = "queued"]_vars

\* a status query observes a Job that has failed
C5_Witness ==
  /\ lastResp.route = "jobs"
  /\ lastResp.code = 200
  /\ lastResp.job # None
  /\ lastResp.job[1].status = "failed"

\* C6: in every committed state every Job has a Confirmation of its tenant and
\* user with tool ingest_github, status approved and the Job's repo_url.
C6_JobHasApprovedConfirmation ==
  \A j \in DOMAIN jobs :
    \E id \in DOMAIN confs :
      /\ confs[id].tenant = jobs[j].tenant
      /\ confs[id].user = jobs[j].user
      /\ confs[id].tool_name = "ingest_github"
      /\ confs[id].status = "approved"
      /\ confs[id].payload.repo_url = jobs[j].payload.repo_url

\* the handler of request rid returns in this step
Returned(rid) ==
  /\ rid \in InFlight
  /\ reqs[rid].pc \in {"act", "update"}
  /\ rid \in DOMAIN reqs' => reqs'[rid].pc = "background"

\* the transaction of request rid commits in this step
Commits(rid) ==
  /\ rid \in InFlight
  /\ rid \notin DOMAIN reqs'
  /\ rid \notin DOMAIN background

\* a bare yes of the chat that found an ingest_github confirmation pending
ChatYesIngest(r) ==
  /\ r.kind = "chat"
  /\ r.message \in {"yes", "y"}
  /\ r.pending # 0
  /\ confs[r.pending].tool_name = "ingest_github"

Denial(r) ==
  /\ r.pending # 0
  /\ \/ r.kind = "chat" /\ r.message \in {"no", "n"}
     \/ r.kind = "confirm" /\ ~r.approved

LastAssistant ==
  LET A == { i \in 1..Len(messages) : /\ messages[i].tenant = lastResp.tenant
                                      /\ messages[i].session = lastResp.session
                                      /\ messages[i].role = "assistant" }
  IN IF A = {} THEN 0 ELSE CHOOSE i \in A : \A k \in A : k <= i

\* C9: a bare yes/no of the chat, sent when no confirmation is pending and the
\* most recent assistant message is the crawl prompt for URL X, ends as the
\* reply to a structured confirmation does: yes is answered with "Ingestion job
\* started. Job ID: <id>" and no with the fixed cancellation message.
C9_FallbackLikeStructured ==
  ( /\ lastResp.route = "chat"
    /\ lastResp.message \in {"yes", "y", "no", "n"}
    /\ get_pending_for_session(confs, [tenant |-> lastResp.tenant, user |-> lastResp.user,
                                       session |-> lastResp.session]) = 0
    /\ LastAssistant # 0
    /\ messages[LastAssistant].content.k = "Would you like me to crawl this repository: " )
  => /\ lastResp.code = 200
     /\ lastResp.content.k = IF lastResp.message \in {"yes", "y"}
                               THEN "Ingestion job started. Job ID: "
                               ELSE "Understood, I did not perform that action."

\* rows the Job could be instead: another status, another payload, and the
\* result and error of that status
JobVariants(row) ==
  { [row EXCEPT !.status = st,
                !.payload = [repo_url |-> u],
                !.result = IF st = "succeeded" THEN Some([repo_url |-> u, ingested |-> TRUE]) ELSE None,
                !.error = IF st = "failed" THEN Some("RetryError") ELSE None]
      : st \in {"queued", "running", "succeeded", "failed"}, u \in Urls }

\* C10: a status query for a Job made with another tenant or another user than
\* the Job's own is answered not-found, and the answer is the same whatever the
\* Job's status, payload, result and error are.
C10_ForeignJobNotFound ==
  /\ \A j \in DOMAIN jobs, c \in Scopes :
       (c.session = "s1" /\ (c.tenant # jobs[j].tenant \/ c.user # jobs[j].user)) =>
         /\ get_job_status(jobs, c, j) = [code |-> 404, job |-> None]
         /\ \A row \in JobVariants(jobs[j]) :
              get_job_status([jobs EXCEPT ![j] = row], c, j) = get_job_status(jobs, c, j)
  /\ ( /\ lastResp.route = "jobs"
       /\ lastResp.job_id \in DOMAIN jobs
       /\ \/ lastResp.tenant # jobs[lastResp.job_id].tenant
          \/ lastResp.user # jobs[lastResp.job_id].user )
     => lastResp.code = 404 /\ lastResp.job = None

\* a query by another tenant for a Job that has succeeded was answered not-found
C10_Witness ==
  /\ lastResp.route = "jobs"
  /\ lastResp.job_id \in DOMAIN jobs
  /\ lastResp.tenant # jobs[lastResp.job_id].tenant
  /\ jobs[lastResp.job_id].status = "succeeded"
  /\ lastResp.code = 404

\* C11: no request of user B appends a message to the conversation of a session
\* that belongs to another user A of the same tenant: whenever a request commits
\* messages under a session id whose Session row exists, that row is the
\* requesting user's own (an upload and a /confirm of B with A's session id
\* included).
C11_OnlyOwnerAppends ==
  [][\A rid \in InFlight :
       LET r == reqs[rid]
       IN (rid \notin DOMAIN reqs' /\ Len(messages') > Len(messages)) =>
            \A A \in Users :
              (r.session \in DOMAIN sessions /\ sessions[r.session] = [tenant |-> r.tenant, user |-> A])
                => A = r.user]_vars

\* C12: while the stored message count N of a session is at most 2W, no
\* compaction run creates or modifies the Summary of that session, whatever the
\* number and interleaving of the compaction checks: the session has no Summary,
\* and no step gives it one.
C12_NoCompactionUpTo2W ==
  [][\A t \in Tenants, s \in Sessions :
       Cardinality(session_rows(messages, t, s)) <= 2 * W =>
         /\ <<t, s>> \notin DOMAIN summaries
         /\ <<t, s>> \notin DOMAIN summaries']_vars

\* the compaction check of a direct-reply turn has run with 2W messages stored,
\* and there is no Summary
C12_Witness ==
  /\ Cardinality(session_rows(messages, "t1", "s1")) = 2 * W
  /\ messages[Len(messages)].content = LLMReply
  /\ ~exit_last
  /\ reqs = <<>>
  /\ background = <<>>
  /\ summaries = <<>>

\* the compaction checks of tenant t and session s that are scheduled and have
\* not run yet, in the background queues bg
PendingChecks(bg, t, s) ==
  { rid \in DOMAIN bg : \E i \in 1..Len(bg[rid]) :
      bg[rid][i].kind = "summary" /\ bg[rid][i].tenant = t /\ bg[rid][i].session = s }

\* C13: when the stored message count of a session first reaches 2W+1, exactly
\* one compaction call is made for that crossing, whichever request appended the
\* message and whenever the check runs relative to the commit: in the step in
\* which the count passes 2W, exactly one compaction check of the session is
\* scheduled and still to run; and a Summary that is written is made of the W
\* oldest messages of the session.
C13_OneCompactionAtCrossing ==
  [][\A t \in Tenants, s \in Sessions :
       /\ ( /\ Cardinality(session_rows(messages, t, s)) <= 2 * W
            /\ Cardinality(session_rows(messages', t, s)) > 2 * W )
          => Cardinality(PendingChecks(background', t, s)) = 1
       /\ ( /\ <<t, s>> \in DOMAIN summaries'
            /\ \/ <<t, s>> \notin DOMAIN summaries
               \/ summaries'[<<t, s>>] # summaries[<<t, s>>] )
          => \A i \in 1..W :
               LET k == CHOOSE x \in session_rows(messages, t, s) :
                          Cardinality({ y \in session_rows(messages, t, s) : y < x }) = i - 1
               IN summaries'[<<t, s>>][i] = [role |-> messages[k].role, content |-> messages[k].content]]_vars

\* no confirmation is resolved in this step
NoResolve ==
  \A i \in DOMAIN confs :
    confs'[i].status = confs[i].status /\ confs'[i].resolved_at = confs[i].resolved_at

\* C14: get_pending(id) is read-only and idempotent.  Two consecutive calls with
\* the same id and scope, with no resolve in between, return the same
\* confirmation with identical fields: over a step without a resolve the lookup
\* of every id under every scope gives the same row, and the second lookup of a
\* /confirm handler (in resolve) finds the row its first lookup found.  The
\* lookup changes no state: the step that receives a /confirm and runs it writes
\* no table.
C14_GetPendingIdempotent ==
  [][/\ NoResolve =>
          \A c \in Scopes, id \in DOMAIN confs :
            /\ get_pending(confs', c, id) = get_pending(confs, c, id)
            /\ get_pending(confs, c, id) # 0 =>
                 /\ get_pending(confs, c, id) = id
                 /\ confs'[id] = confs[id]
     /\ \A rid \in InFlight :
          ( /\ reqs[rid].kind = "confirm"
            /\ reqs[rid].pc = "act"
            /\ confs[reqs[rid].pending].status = "pending"
            /\ (rid \notin DOMAIN reqs' \/ reqs'[rid] # reqs[rid]) )
          => /\ rid \in DOMAIN reqs'
             /\ reqs'[rid].pc = "update"
             /\ reqs'[rid].pending = reqs[rid].pending
     /\ \A rid \in DOMAIN reqs' \ InFlight :
          reqs'[rid].kind = "confirm" =>
            /\ db' = db
            /\ reqs'[rid].pending = reqs'[rid].confirmation_id
            /\ reqs'[rid].d_resolve = ""
     /\ (lastResp'.route = "confirm" /\ lastResp'.code = 404) => db' = db]_vars

\* a /confirm handler has looked its confirmation up twice, in confirm and in
\* resolve, and found it pending both times, while another confirmation exists
C14_Witness ==
  \E rid \in InFlight :
    /\ reqs[rid].kind = "confirm"
    /\ reqs[rid].pc = "update"
    /\ confs[reqs[rid].pending].status = "pending"
    /\ Cardinality(DOMAIN confs) > 1

\* the Job is created before the ledger is resolved: a transaction that holds the
\* approval of an ingest_github confirmation holds the Job
C15_JobBeforeResolve ==
  \A rid \in InFlight :
    (reqs[rid].d_resolve = "approved" /\ confs[reqs[rid].pending].tool_name = "ingest_github")
      => Len(reqs[rid].d_jobs) = 1

\* C15: in every durable state, the state a crash leaves at any point of a
\* resolving request included, an ingest_github confirmation with status
\* approved has its Job in the Job table: a Job of the confirmation's tenant and
\* user with its repo_url, created by a request that resolved this confirmation.
\* The committed tables are what survives a crash.
C15_ApprovedHasJob ==
  /\ \A id \in DOMAIN confs :
       (confs[id].tool_name = "ingest_github" /\ confs[id].status = "approved") =>
         \E j \in DOMAIN jobs :
           /\ jobs[j].tenant = confs[id].tenant
           /\ jobs[j].user = confs[id].user
           /\ jobs[j].job_type = "github_ingestion"
           /\ jobs[j].payload = [repo_url |-> confs[id].payload.repo_url]
           /\ origin.job[j].confirmation = id
  /\ C15_JobBeforeResolve

\* an approved ingest_github confirmation and its Job are committed while
\* another request that resolves the same confirmation is still in flight
C15_Witness ==
  \E id \in DOMAIN confs :
    /\ confs[id].tool_name = "ingest_github"
    /\ confs[id].status = "approved"
    /\ \E j \in DOMAIN jobs : origin.job[j].confirmation = id
    /\ \E rid \in InFlight : reqs[rid].pending = id

\* C16: under fair scheduling and a fetch that terminates, every Job created on
\* approval is eventually picked up by the runner and reaches succeeded or
\* failed: no committed Job stays queued forever, for every ordering of the
\* runner's start relative to the commit of the request that created the Job.
C16_EveryJobFinishes ==
  \A j \in 1..MaxResolves :
    (j \in DOMAIN jobs) ~> (j \in DOMAIN jobs /\ jobs[j].status \in {"succeeded", "failed"})

\* C17: after any interleaving of successful ingestion jobs of one tenant and
\* user there is at most one Repository row per normalized URL, also when two
\* jobs for the same source finish concurrently.
C17_OneRepositoryPerUrl ==
  \A a, b \in repositories :
    (a.tenant = b.tenant /\ a.user = b.user /\ a.normalized_url = b.normalized_url) => a = b

\* the decision a resolving request carries: the bare token of a chat message,
\* or the approved field of a /confirm
Decision(r) == IF r.kind = "chat" THEN r.message \in {"yes", "y"} ELSE r.approved

\* the follow-up message of resolving confirmation row c with decision b, when
\* job is the id of the Job created
FollowUp(c, b, job) ==
  IF ~b THEN Text("Understood, I did not perform that action.")
  ELSE IF c.tool_name = "ingest_github" THEN Content("Ingestion job started. Job ID: ", <<>>, job)
  ELSE Text("Candidate profile saved to workspace.")

ApproveSave(r) ==
  /\ r.pending # 0
  /\ Decision(r)
  /\ confs[r.pending].tool_name = "save_candidate"

\* the dicts that hold some of the items of payload
Partial(payload) == SUBSET payload

C20_BareTokenIsNormalTurn ==
  [][LET c == [tenant |-> lastResp'.tenant, user |-> lastResp'.user, session |-> lastResp'.session]
         A == { i \in 1..Len(messages) : /\ messages[i].tenant = c.tenant
                                         /\ messages[i].session = c.session
                                         /\ messages[i].role = "assistant" }
         last == IF A = {} THEN 0 ELSE CHOOSE i \in A : \A k \in A : k <= i
     IN ( /\ nreq' = nreq + 1
          /\ lastResp'.rid = nreq'
          /\ lastResp'.route = "chat"
          /\ lastResp'.message \in {"yes", "y", "no", "n"}
          /\ c.session \in DOMAIN sessions => sessions[c.session] = [tenant |-> c.tenant, user |-> c.user]
          /\ get_pending_for_session(confs, c) = 0
          /\ last # 0 => messages[last].content.k # "Would you like me to crawl this repository: " )
        => /\ lastResp'.code = 200
           /\ lastResp'.type \in {"message", "confirmation"}
           /\ jobs' = jobs
           /\ nextJob' = nextJob]_vars

\* the committed confirmations of scope c that are pending
PendingOf(c) ==
  { id \in DOMAIN confs : /\ confs[id].status = "pending"
                          /\ confs[id].tenant = c.tenant
                          /\ confs[id].user = c.user
                          /\ confs[id].session = c.session }

\* C21: with requests handled one after the other, a chat turn whose message is
\* a bare yes/no token, received while the session has a pending confirmation,
\* does not invoke the reasoning engine and creates no confirmation: it is not
\* answered in the step that routes it, it goes on to resolve the newest pending
\* confirmation, and its reply is the follow-up of that resolution.  This also
\* holds when the last assistant message is a plain-text crawl prompt: the
\* pending confirmation takes precedence.
C21_TokenResolvesPending ==
  [][/\ ( /\ nreq' = nreq + 1
          /\ lastResp'.rid = nreq'
          /\ lastResp'.route = "chat"
          /\ lastResp'.message \in {"yes", "y", "no", "n"} )
        => PendingOf([tenant |-> lastResp'.tenant, user |-> lastResp'.user,
                      session |-> lastResp'.session]) = {}
     /\ \A rid \in DOMAIN reqs' \ InFlight :
          (reqs'[rid].kind = "chat" /\ reqs'[rid].message \in {"yes", "y", "no", "n"}) =>
            /\ reqs'[rid].pc = "act"
            /\ reqs'[rid].pending \in PendingOf(Scope(reqs'[rid]))
            /\ reqs'[rid].d_confs = <<>>
            /\ nextConf' = nextConf
     /\ \A rid \in InFlight :
          (reqs[rid].kind = "chat" /\ reqs[rid].pending # 0) =>
            /\ nextConf' = nextConf
            /\ rid \in DOMAIN reqs' => reqs'[rid].d_confs = <<>>
            /\ Returned(rid) =>
                 /\ lastResp'.rid = rid
                 /\ lastResp'.code = 200
                 /\ lastResp'.type = "message"
                 /\ lastResp'.content \in
                      { FollowUp(confs[reqs[rid].pending], Decision(reqs[rid]), j) : j \in 0..nextJob' }
                 /\ lastResp'.content.k # "llm reply"
                 /\ lastResp'.content.k # "Would you like me to crawl this repository: "]_vars

\* a chat yes goes on to resolve a pending save_candidate confirmation while the
\* last assistant message of the session is a plain-text crawl prompt
C21_Witness ==
  \E rid \in InFlight :
    /\ reqs[rid].kind = "chat"
    /\ reqs[rid].message = "yes"
    /\ reqs[rid].pc = "update"
    /\ confs[reqs[rid].pending].tool_name = "save_candidate"
    /\ messages # <<>>
    /\ messages[Len(messages)].role = "assistant"
    /\ messages[Len(messages)].content.k = "Would you like me to crawl this repository: "

\* C22: a chat message that is not one of the tokens yes, y, no, n never
\* resolves a confirmation and never creates a Job or a Candidate: its request
\* holds no pending confirmation, writes no resolution, Job or Candidate, and
\* its commit leaves every committed confirmation, pending ones included, every
\* Job and every Candidate as they were.
C22_OtherMessagesResolveNothing ==
  [][/\ \A rid \in DOMAIN reqs' :
          (reqs'[rid].kind = "chat" /\ reqs'[rid].message \notin {"yes", "y", "no", "n"}) =>
            /\ reqs'[rid].pending = 0
            /\ reqs'[rid].d_resolve = ""
            /\ reqs'[rid].d_jobs = <<>>
            /\ reqs'[rid].d_cands = <<>>
     /\ \A rid \in InFlight :
          ( /\ reqs[rid].kind = "chat"
            /\ reqs[rid].message \notin {"yes", "y", "no", "n"}
            /\ rid \notin DOMAIN reqs' ) =>
            /\ \A id \in DOMAIN confs : id \in DOMAIN confs' /\ confs'[id] = confs[id]
            /\ jobs' = jobs
            /\ candidates' = candidates
     /\ ( /\ lastResp'.route = "chat"
          /\ lastResp'.message \notin {"yes", "y", "no", "n"}
          /\ lastResp'.code # 0 ) =>
            /\ \A id \in DOMAIN confs : id \in DOMAIN confs' /\ confs'[id].status = confs[id].status
            /\ jobs' = jobs
            /\ candidates' = candidates]_vars

\* a turn with another message was committed after a confirmation was created,
\* and that confirmation is still pending
C22_Witness ==
  \E id \in DOMAIN confs : \E i \in 1..Len(messages) :
    /\ confs[id].status = "pending"
    /\ messages[i].role = "user"
    /\ messages[i].content = "hi"
    /\ messages[i].created_at > confs[id].created_at
    /\ messages[i].session = confs[id].session

Owns(c, id) ==
  /\ id \in DOMAIN confs
  /\ confs[id].status = "pending"
  /\ confs[id].tenant = c.tenant
  /\ confs[id].user = c.user
  /\ confs[id].session = c.session

\* C25: POST /confirm with the id of a pending confirmation of another tenant,
\* user or session is answered not-found (404): the handler goes on only for a
\* pending confirmation of the caller's own scope, the 404 changes no row
\* (the confirmation stays pending with resolved_at unset, no Job, Candidate or
\* message is created) and schedules nothing, and the 404 response carries
\* nothing but the status, so it is the same as for a resolved or an unknown id.
C25_ForeignConfirmationNotFound ==
  [][/\ \A rid \in DOMAIN reqs' \ InFlight :
          reqs'[rid].kind = "confirm" =>
            /\ Owns(Scope(reqs'[rid]), reqs'[rid].confirmation_id)
            /\ reqs'[rid].pending = reqs'[rid].confirmation_id
     /\ (lastResp'.route = "confirm" /\ lastResp'.rid = nreq' /\ nreq' = nreq + 1) =>
          LET c == [tenant |-> lastResp'.tenant, user |-> lastResp'.user, session |-> lastResp'.session]
          IN /\ ~Owns(c, lastResp'.confirmation_id)
             /\ lastResp'.code = 404
             /\ lastResp' = Resp(lastResp'.rid,
                                 Request("confirm", c, "", lastResp'.confirmation_id, lastResp'.approved),
                                 404)
             /\ confs' = confs
             /\ jobs' = jobs
             /\ candidates' = candidates
             /\ messages' = messages
             /\ repositories' = repositories
             /\ reqs' = reqs
             /\ background' = background
     /\ \A c \in Scopes : \A id \in 1..(nextConf + 1) :
          get_pending(confs, c, id) = (IF Owns(c, id) THEN id ELSE 0)]_vars

\* a /confirm for a pending confirmation of another user was answered 404
C25_Witness ==
  /\ lastResp.route = "confirm"
  /\ lastResp.code = 404
  /\ lastResp.confirmation_id \in DOMAIN confs
  /\ confs[lastResp.confirmation_id].status = "pending"
  /\ confs[lastResp.confirmation_id].resolved_at = 0
  /\ confs[lastResp.confirmation_id].user # lastResp.user

\* C27: when the fetch raises, the job ends failed with the text of the
\* exception as its error, completed_at set and result unset, its payload is
\* unchanged and no Repository row is created or updated; the runner is not
\* dispatched again, so a failed job stays failed, unchanged.
C27_FetchErrorFailsJob ==
  [][\A j \in DOMAIN jobs :
       /\ (jobs[j].status # "failed" /\ jobs'[j].status = "failed") =>
            /\ jobs[j].status = "running"
            /\ jobs'[j].error \in { Some(e) : e \in FetchErrors }
            /\ jobs'[j].completed_at # 0
            /\ jobs'[j].result = None
            /\ jobs'[j].payload = jobs[j].payload
            /\ repositories' = repositories
            /\ reqs' = reqs
            /\ \A rid \in DOMAIN background' :
                 \A i \in 1..Len(background'[rid]) :
                   background'[rid][i].kind = "job" => background'[rid][i].job # j
       /\ jobs[j].status = "failed" => jobs'[j] = jobs[j]]_vars

\* a job failed with the error of exhausted retries; nothing of it is left to
\* run and no Repository row exists
C27_Witness ==
  \E j \in DOMAIN jobs :
    /\ jobs[j].status = "failed"
    /\ jobs[j].error = Some("RetryError")
    /\ jobs[j].completed_at # 0
    /\ jobs[j].result = None
    /\ repositories = {}
    /\ background = <<>>

\* C26: the runner called for a job that does not exist or is not queued
\* changes nothing and ends; and of the runners called for one job, one after
\* the other or at the same time, at most one marks it running and fetches: a
\* runner goes on to the fetch only from a job it finds queued, and never while
\* another runner of the job is past the pick-up.
C26_PickedUpOnce ==
  [][\A rid \in DOMAIN background :
       LET t == Running(rid)
       IN /\ ( /\ t.kind = "job"
               /\ t.pc = "start"
               /\ (t.job \notin DOMAIN jobs \/ jobs[t.job].status # "queued")
               /\ (rid \notin DOMAIN background' \/ background'[rid] # background[rid]) ) =>
               /\ (rid \notin DOMAIN background' \/ background'[rid] = Tail(background[rid]))
               /\ jobs' = jobs
               /\ repositories' = repositories
          /\ ( /\ t.kind = "job"
               /\ t.pc # "fetch"
               /\ rid \in DOMAIN background'
               /\ background'[rid][1].pc = "fetch" ) =>
               /\ jobs[t.job].status = "queued"
               /\ \A q \in DOMAIN background \ {rid} :
                    ~(Running(q).job = t.job /\ Running(q).pc \in {"fetch", "store"})]_vars

\* C28: every error of the background execution is captured in the Job: when
\* the task of a runner ends by an exception, the exception has not left the
\* runner, and the Job is failed with an error recorded, not succeeded and not
\* running.  RunnerStore raises when the lookup of create_or_update finds
\* several rows.
C28_ErrorsCaptured ==
  [][\A rid \in DOMAIN background :
       LET t == Running(rid)
       IN ( /\ t.kind = "job"
            /\ t.pc = "store"
            /\ Cardinality(t.existing) > 1
            /\ (rid \notin DOMAIN background' \/ background'[rid] # background[rid]) ) =>
            /\ jobs'[t.job].status = "failed"
            /\ jobs'[t.job].error # None]_vars

\* C29: in every committed state a Job that is succeeded has a Repository row
\* of its tenant and user for its repo_url, so a status query never observes
\* succeeded before the repository is stored.
C29_SucceededHasRepository ==
  /\ \A j \in DOMAIN jobs :
       jobs[j].status = "succeeded" =>
         get_by_url(repositories, jobs[j].tenant, jobs[j].user, jobs[j].payload.repo_url) # {}
  /\ (lastResp.route = "jobs" /\ lastResp.job # None /\ lastResp.job[1].status = "succeeded") =>
       \E j \in DOMAIN jobs :
         /\ lastResp.job[1].id = j
         /\ get_by_url(repositories, jobs[j].tenant, jobs[j].user, jobs[j].payload.repo_url) # {}

\* a request whose every attempt is answered 200
AllOk == [i \in 1..(stop_after_attempt + 1) |-> "ok"]

\* every attempt of a request of the sequence is transient up to the limit
AllTransient(outcomes) ==
  \A i \in 1..stop_after_attempt : outcomes[i] \in {"rate_limited", "network_error"}

\* C30: a request of the fetch is attempted at most stop_after_attempt (3)
\* times: it stops at the first attempt that is not a transient failure, and
\* when all three attempts fail transiently it raises instead of trying again,
\* which makes ingest_github_repo raise.  The execution then ends: the step of
\* a failed fetch marks the Job failed with the error recorded and ends the
\* task without the exception leaving the runner, and a running Job always
\* comes to failed or succeeded.
C30_RetriesBoundedThenFailed ==
  /\ [][\A j \in DOMAIN jobs :
          (jobs[j].status = "running" /\ jobs'[j] # jobs[j]) =>
            /\ \A o \in Attempts :
                 /\ get(o, 1).attempts <= stop_after_attempt
                 /\ get(o, 1).attempts =
                      (IF AllTransient(o) THEN stop_after_attempt
                       ELSE CHOOSE i \in 1..stop_after_attempt :
                              /\ o[i] \notin {"rate_limited", "network_error"}
                              /\ \A k \in 1..(i - 1) : o[k] \in {"rate_limited", "network_error"})
                 /\ AllTransient(o) <=> get(o, 1).raised = "RetryError"
                 /\ AllTransient(o) =>
                      /\ ingest_github_repo(o, AllOk).raised = "RetryError"
                      /\ ingest_github_repo(o, AllOk).requests = << stop_after_attempt >>
                      /\ ingest_github_repo(AllOk, o).raised = "RetryError"
                      /\ ingest_github_repo(AllOk, o).requests = << 1, stop_after_attempt >>
            /\ jobs'[j].status \in {"failed", "succeeded"}
            /\ jobs'[j].status = "failed" =>
                 /\ jobs'[j].error \in { Some(e) : e \in FetchErrors }
                 /\ jobs'[j].completed_at # 0
                 /\ reqs' = reqs
                 /\ \A rid \in DOMAIN background' :
                      \A i \in 1..Len(background'[rid]) : background'[rid][i].job # j]_vars
  /\ \A j \in 1..MaxResolves :
       (j \in DOMAIN jobs /\ jobs[j].status = "running")
         ~> (j \in DOMAIN jobs /\ jobs[j].status \in {"failed", "succeeded"})

\* a Job has failed with the error of a request whose three attempts all failed
C30_Witness ==
  \E j \in DOMAIN jobs :
    /\ jobs[j].status = "failed"
    /\ jobs[j].error = Some("RetryError")
    /\ "RetryError" \in { get(o, 1).raised : o \in Attempts }
    /\ lastResp.route = "jobs"
    /\ lastResp.job # None
    /\ lastResp.job[1].error = Some("RetryError")

\* C31: with requests handled one after the other, no operation modifies or
\* deletes a committed message: every step keeps the committed messages as they
\* are and in place, the messages it adds come after them, also in the order of
\* created_at, and a step that writes a Summary (a compaction) or that updates
\* a Job or a Repository (the job runner) leaves the messages, their count,
\* roles and contents, unchanged.
C31_MessagesAppendOnly ==
  [][/\ Len(messages') >= Len(messages)
     /\ SubSeq(messages', 1, Len(messages)) = messages
     /\ \A i \in (Len(messages) + 1)..Len(messages') : \A k \in 1..Len(messages) :
          (messages'[i].tenant = messages[k].tenant /\ messages'[i].session = messages[k].session)
            => messages'[i].created_at >= messages[k].created_at
     /\ summaries' # summaries => messages' = messages
     /\ (repositories' # repositories \/ \E j \in DOMAIN jobs : jobs'[j] # jobs[j])
          => messages' = messages]_vars

\* a Summary was written for a session whose messages are all still stored
C31_Witness ==
  /\ <<"t1", "s1">> \in DOMAIN summaries
  /\ Cardinality(session_rows(messages, "t1", "s1")) > 2 * W
  /\ \E i \in 1..Len(messages) :
       /\ messages[i].role = summaries[<<"t1", "s1">>][1].role
       /\ messages[i].content = summaries[<<"t1", "s1">>][1].content

\* C32: each compaction summarises the oldest block of W messages that no
\* earlier compaction has covered: when a compaction is about to run for a
\* session that has a Summary and more than 2W messages, the block it reads is
\* not the block the Summary was made from.
C32_SuccessiveBlocks ==
  \A rid \in DOMAIN background :
    LET t == Running(rid)
    IN ( /\ t.kind = "summary"
         /\ <<t.tenant, t.session>> \in DOMAIN summaries
         /\ Cardinality(session_rows(messages, t.tenant, t.session)) > 2 * W ) =>
         \A oldest \in get_oldest(messages, t.tenant, t.session, W) :
           [i \in 1..Len(oldest) |-> [role |-> messages[oldest[i]].role,
                                      content |-> messages[oldest[i]].content]]
             # summaries[<<t.tenant, t.session>>]

\* C33: for a session with N stored messages get_context returns exactly the
\* min(N, W) most recently appended messages, in the order in which they were
\* appended, with the Summary text of the session or the empty text; also for
\* messages appended within one request, which carry one created_at.
C33_WindowIsLastAppended ==
  \A t \in Tenants, s \in Sessions :
    \A ctx \in get_context(messages, summaries, t, s) :
      LET N == Cardinality(session_rows(messages, t, s))
      IN /\ Len(ctx.recent) = (IF N < W THEN N ELSE W)
         /\ \E q \in get_recent_appended(messages, t, s, W) :
              ctx.recent = [i \in 1..Len(q) |-> << messages[q[i]].role, messages[q[i]].content >>]
         /\ ctx.summary = (IF <<t, s>> \in DOMAIN summaries THEN summaries[<<t, s>>] ELSE NoSummary)

\* C34: on a decision turn the history given to the reasoning engine holds the
\* current user message exactly once, as its last element.
C34_CurrentMessageOnce ==
  (lastResp.route = "chat" /\ lastResp.history # <<>>) =>
    /\ lastResp.history[Len(lastResp.history)] = << "user", lastResp.message >>
    /\ Cardinality({ i \in 1..Len(lastResp.history) :
                       lastResp.history[i] = << "user", lastResp.message >> }) = 1

\* C35: every request that persists an assistant reply (a direct reply, a chat
\* yes/no resolution, a resolution through POST /confirm) schedules a compaction
\* check for its session, which runs after the reply was produced: in the step
\* in which such a request answers, its background tasks hold a compaction
\* check of the session, still to run.
C35_ReplySchedulesCheck ==
  [][( /\ lastResp'.rid # 0
       /\ lastResp'.code = 200
       /\ \/ lastResp'.route = "chat" /\ lastResp'.type = "message"
          \/ lastResp'.route = "confirm" ) =>
       /\ lastResp'.rid \in DOMAIN background'
       /\ \E i \in 1..Len(background'[lastResp'.rid]) :
            /\ background'[lastResp'.rid][i].kind = "summary"
            /\ background'[lastResp'.rid][i].tenant = lastResp'.tenant
            /\ background'[lastResp'.rid][i].session = lastResp'.session
            /\ background'[lastResp'.rid][i].pc = "start"]_vars

\* C36: a compaction that finds the reasoning engine not configured or failing
\* is a no-op that does not touch the turn that scheduled it: the step of a
\* compaction check changes no message, changes the Summary of no other
\* session, and when the request that scheduled it has not committed yet, that
\* request is still there to commit its messages afterwards.
C36_FailedCompactionIsNoOp ==
  [][\A rid \in DOMAIN background :
       ( /\ Running(rid).kind = "summary"
         /\ (rid \notin DOMAIN background' \/ background'[rid] # background[rid]) ) =>
         /\ messages' = messages
         /\ \A k \in DOMAIN summaries :
              k # << Running(rid).tenant, Running(rid).session >> =>
                k \in DOMAIN summaries' /\ summaries'[k] = summaries[k]
         /\ rid \in InFlight => (rid \in DOMAIN reqs' /\ reqs'[rid] = reqs[rid])]_vars

\* C37: a request that fails on the synchronous path is aborted and none of its
\* writes persist: the step that answers it with status 500 changes no table
\* (no Message, Confirmation, Job or Candidate appears, no Confirmation changes
\* status) and schedules no background task, and for as long as that response
\* is the last one the request's transaction is gone, no Message or
\* Confirmation carries its timestamp and it has no background task.
FailedRequestWrote(rid) ==
  \/ \E i \in 1..Len(messages) : messages[i].created_at = rid
  \/ \E id \in DOMAIN confs : confs[id].created_at = rid \/ confs[id].resolved_at = rid

C37_FailedRequestPersistsNothing ==
  [][/\ (lastResp'.code = 500 /\ lastResp'.rid # lastResp.rid) =>
          /\ db' = db
          /\ background' = background
     /\ lastResp'.code = 500 =>
          /\ lastResp'.rid \notin DOMAIN reqs'
          /\ lastResp'.rid \notin DOMAIN background'
          /\ ~FailedRequestWrote(lastResp.rid)']_vars

\* the engine failed in the decision step of a turn that had already appended
\* its user message, in a session that holds committed messages
C37_Witness ==
  /\ lastResp.code = 500
  /\ lastResp.route = "chat"
  /\ lastResp.message = "hi"
  /\ lastResp.rid \notin InFlight
  /\ \E i \in 1..Len(messages) : messages[i].session = lastResp.session
  /\ ~FailedRequestWrote(lastResp.rid)

\* C38: each Job's fields are consistent with its status: started_at is set iff
\* the status is not queued, completed_at is set iff the status is succeeded or
\* failed, result is set only when the status is succeeded, error is set only
\* when the status is failed; and no step changes the payload, tenant, user or
\* job_type of a Job, or removes a Job.
JobConsistent(row) ==
  /\ row.status \in {"queued", "running", "succeeded", "failed"}
  /\ (row.started_at # 0) <=> (row.status # "queued")
  /\ (row.completed_at # 0) <=> (row.status \in {"succeeded", "failed"})
  /\ row.result # None => row.status = "succeeded"
  /\ row.error # None => row.status = "failed"

C38_JobFieldsFollowStatus ==
  [][/\ \A j \in DOMAIN jobs' : JobConsistent(jobs'[j])
     /\ \A j \in DOMAIN jobs :
          /\ j \in DOMAIN jobs'
          /\ jobs'[j].payload = jobs[j].payload
          /\ jobs'[j].tenant = jobs[j].tenant
          /\ jobs'[j].user = jobs[j].user
          /\ jobs'[j].job_type = jobs[j].job_type]_vars

\* one Job ended failed with its error and another succeeded with its result,
\* each with the payload it was created with
C38_Witness ==
  \E j, k \in DOMAIN jobs :
    /\ jobs[j].status = "failed" /\ jobs[j].error # None /\ jobs[j].result = None
    /\ jobs[k].status = "succeeded" /\ jobs[k].result # None /\ jobs[k].error = None
    /\ jobs[j].completed_at # 0 /\ jobs[k].completed_at # 0
    /\ jobs[j].payload.repo_url \in Urls /\ jobs[k].payload.repo_url \in Urls

\* ---------------------------------------------------------------- URL inputs
\* the most trailing slashes an input carries
MaxSlashes == 1

RECURSIVE Slashes(_)
Slashes(n) == IF n = 0 THEN <<>> ELSE <<"/">> \o Slashes(n - 1)

\* what an input is made of: white space around it, a scheme and host or a
\* leading slash or neither, the owner/name path, trailing slashes, a query string
UrlParts ==
  [lead : {<<>>, <<" ">>},
   pre : {<<>>, <<"/">>, <<"https://", "github.com", "/">>},
   slashes : 0..MaxSlashes,
   query : {<<>>, <<"?", "tab=readme">>},
   trail : {<<>>, <<" ">>}]

\* the input as the user typed it
Url(p) == p.lead \o p.pre \o <<"acme/widget">> \o Slashes(p.slashes) \o p.query \o p.trail

\* two ingestion jobs of one user, run one after the other, whose inputs differ
\* only by surrounding white space, trailing slashes or a query string
InitUrl ==
  /\ sessions = <<>>
  /\ messages = <<>>
  /\ confs = <<>>
  /\ candidates = <<>>
  /\ summaries = <<>>
  /\ reqs = <<>>
  /\ exit_last = FALSE
  /\ nreq = 1
  /\ used = [turn |-> 0, upload |-> 0, resolve |-> 0]
  /\ nextConf = 0
  /\ nextJob = 2
  /\ lastResp = NoResp
  /\ origin = [job |-> <<>>, cand |-> <<>>]
  /\ repositories = {}
  /\ \E a, b \in UrlParts :
       /\ a.pre = b.pre
       /\ jobs = (1 :> JobIn("queued", Url(a))) @@ (2 :> JobIn("queued", Url(b)))
  /\ background = (1 :> << JobTask(1), JobTask(2) >>)

NextUrl ==
  \/ \E rid \in DOMAIN background : RunnerStart(rid)
  \/ \E rid \in DOMAIN background : RunnerFailed(rid)
  \/ \E rid \in DOMAIN background : RunnerSucceeded(rid)
  \/ \E rid \in DOMAIN background : RunnerStore(rid)

SpecUrl == InitUrl /\ [][NextUrl]_vars

\* u and v differ only by surrounding white space, trailing slashes or a query string
SameButWrapping(u, v) ==
  \E a, b \in UrlParts : a.pre = b.pre /\ Url(a) = u /\ Url(b) = v

\* C39: normalization is idempotent, normalize(normalize(u)) = normalize(u) for
\* the input u of every Repository row stored, and two inputs that differ only
\* by surrounding white space, trailing slashes or a query string normalize to
\* the same key and address the same Repository row: the rows stored for them
\* are one row, which a lookup by either input of the two Jobs finds.
C39_NormalizeIdempotentAndCanonical ==
  /\ \A row \in repositories :
       /\ row.normalized_url = normalize_url(row.repo_url)
       /\ normalize_url(row.normalized_url) = row.normalized_url
  /\ \A r1, r2 \in repositories :
       SameButWrapping(r1.repo_url, r2.repo_url) =>
         /\ r1.normalized_url = r2.normalized_url
         /\ r1 = r2
  /\ \A row \in repositories : \A j \in DOMAIN jobs :
       SameButWrapping(row.repo_url, jobs[j].payload.repo_url) =>
         row \in get_by_url(repositories, row.tenant, row.user, jobs[j].payload.repo_url)

====
